---- MODULE Spec2Model ----
(***************************************************************************)
(* A model of the pysearxng example programs: the two pyplexity adapters   *)
(* (examples/pyplexity_adapter.py, examples/pyplexity_replacement.py) and   *)
(* the walkthrough scripts (examples/basic_usage.py, local_instance.py).   *)
(* The external pyserxng client is the environment: each delegated call    *)
(* either returns a value or raises, chosen nondeterministically.          *)
(***************************************************************************)
EXTENDS Integers, Sequences, FiniteSets, TLC

(***************************************************************************)
(* Bounds of the model.                                                    *)
(***************************************************************************)
\* longest language list a caller passes to search
MaxLangs == 2
\* longest result list one upstream search returns
MaxUpstream == 2
\* largest max_results an adapter is constructed with
MaxCap == 2
\* most close() calls a caller makes on one adapter
MaxCloses == 1

(***************************************************************************)
(* Python values.                                                          *)
(***************************************************************************)
\* Optional[List[str]]: None, or a list
None == [isNone |-> TRUE, val |-> <<>>]
Some(l) == [isNone |-> FALSE, val |-> l]
\* Python truthiness of an optional list: None and [] are falsy
Truthy(o) == ~o.isNone /\ Len(o.val) > 0
\* an absent Optional[str]
NoneStr == "<None>"

\* s[i] of a Python str
Char(s, i) == SubSeq(s, i, i)

UpperAlpha == "ABCDEFGHIJKLMNOPQRSTUVWXYZ"
LowerAlpha == "abcdefghijklmnopqrstuvwxyz"

\* str.lower() of one character
LowerChar(c) ==
    IF \E i \in 1..Len(UpperAlpha) : Char(UpperAlpha, i) = c
    THEN Char(LowerAlpha, CHOOSE i \in 1..Len(UpperAlpha) : Char(UpperAlpha, i) = c)
    ELSE c

RECURSIVE Lower(_)
\* str.lower()
Lower(s) ==
    IF Len(s) = 0 THEN ""
    ELSE LowerChar(Char(s, 1)) \o Lower(SubSeq(s, 2, Len(s)))

RECURSIVE RStrip(_, _)
\* str.rstrip(c): every trailing occurrence of the character c is removed
RStrip(s, c) ==
    IF Len(s) > 0 /\ Char(s, Len(s)) = c
    THEN RStrip(SubSeq(s, 1, Len(s) - 1), c)
    ELSE s

\* the whitespace characters str.strip() removes (those the model's inputs use)
Whitespace == {" ", "\t"}

RECURSIVE LStripWs(_)
LStripWs(s) ==
    IF Len(s) > 0 /\ Char(s, 1) \in Whitespace
    THEN LStripWs(SubSeq(s, 2, Len(s)))
    ELSE s

RECURSIVE RStripWs(_)
RStripWs(s) ==
    IF Len(s) > 0 /\ Char(s, Len(s)) \in Whitespace
    THEN RStripWs(SubSeq(s, 1, Len(s) - 1))
    ELSE s

\* str.strip()
Strip(s) == RStripWs(LStripWs(s))

\* lst[:n] of a Python list, negative n included
SliceTo(lst, n) ==
    IF n >= 0
    THEN SubSeq(lst, 1, IF n < Len(lst) THEN n ELSE Len(lst))
    ELSE SubSeq(lst, 1, IF Len(lst) + n > 0 THEN Len(lst) + n ELSE 0)

\* [f(x) for x in lst]
Map(F(_), lst) == [i \in 1..Len(lst) |-> F(lst[i])]

\* the sequences over S of length lo..hi
SeqsOf(S, lo, hi) == UNION {[1..n -> S] : n \in lo..hi}

\* the sequences over S of length lo..hi that repeat no element
DistinctSeqsOf(S, lo, hi) ==
    {s \in SeqsOf(S, lo, hi) : \A i, j \in 1..Len(s) : i # j => s[i] # s[j]}

(***************************************************************************)
(* The external pyserxng client, as the adapters see it.                   *)
(***************************************************************************)
\* results the upstream service can return: two share a url
ExtResults ==
    { [title |-> "A", url |-> "http://a", content |-> "a1", thumbnail |-> ""],
      [title |-> "B", url |-> "http://a", content |-> "a2", thumbnail |-> "http://a/t.png"],
      [title |-> "C", url |-> "http://c", content |-> "", thumbnail |-> ""] }

\* response.results of one upstream search
UpstreamLists == DistinctSeqsOf(ExtResults, 0, MaxUpstream)

\* the failure kinds pyserxng declares
DeclaredErrors == {"SearchError", "NetworkError", "RateLimitError"}
\* an upstream failure, declared or not: its kind and its text, str(e)
UpstreamErrors ==
    { [kind |-> "SearchError", text |-> "no results"],
      [kind |-> "NetworkError", text |-> "timed out"],
      [kind |-> "RateLimitError", text |-> "429 Too Many Requests"],
      [kind |-> "RuntimeError", text |-> ""] }

\* SafeSearchLevel(value): the enumeration's members by value
SafeSearchValues == {0, 1, 2}
SafeSearchLevel(v) ==
    CASE v = 0 -> "NONE"
      [] v = 1 -> "MODERATE"
      [] v = 2 -> "STRICT"

\* SearchCategory.GENERAL
GENERAL == "general"
\* timeout=30 of every SearchConfig the adapters build
SearchTimeout == 30

\* SearchConfig(categories, engines, language, page, safe_search, timeout)
SearchConfig(engines, language, pg, level) ==
    [ categories |-> <<GENERAL>>, engines |-> engines, language |-> language,
      page |-> pg, safe_search |-> level, timeout |-> SearchTimeout ]

\* InstanceInfo(url=..., status="online")
InstanceInfo(url) == [url |-> url, status |-> "online"]

\* a blocking client call handed to the executor
NoConfig == SearchConfig(None, "", 0, "")
SearchCall(q, config, instance) ==
    [op |-> "search", query |-> q, config |-> config, instance |-> instance]
ProbeCall(instance) ==
    [op |-> "test_instance", query |-> "test", config |-> NoConfig, instance |-> instance]

(***************************************************************************)
(* examples/pyplexity_adapter.py: pure parts of PyplexitySearchAdapter.    *)
(***************************************************************************)
Adapter_default_engines == <<"google", "bing", "wikipedia">>
Adapter_default_languages == <<"auto", "ru", "en", "de", "fr">>

\* a substitution that takes "auto" in any mix of upper and lower case
Adapter_language_any_case(lang) == IF Lower(lang) # "auto" THEN lang ELSE "en"

\* language=lang if lang != "auto" else "en"
Adapter_language(lang) == IF lang # "auto" THEN lang ELSE "en"

\* the SearchConfig built for one language
Adapter_config(engines, lang, pg, level) ==
    SearchConfig(Some(engines), Adapter_language(lang), pg, level)

\* SearchResult(title, url, content, img_src) of one upstream result
Adapter_convert(r) ==
    [ title |-> r.title, url |-> r.url, content |-> r.content,
      img_src |-> IF r.thumbnail # "" THEN r.thumbnail ELSE NoneStr ]

RECURSIVE Adapter_dedup_loop(_, _, _)
Adapter_dedup_loop(rest, seen_urls, unique_results) ==
    IF rest = <<>> THEN unique_results
    ELSE IF Head(rest).url \notin seen_urls
         THEN Adapter_dedup_loop(Tail(rest), seen_urls \cup {Head(rest).url},
                                 Append(unique_results, Head(rest)))
         ELSE Adapter_dedup_loop(Tail(rest), seen_urls, unique_results)

RECURSIVE Adapter_dedup_by_title(_, _, _)
\* a de-duplication that remembers titles where the code remembers urls
Adapter_dedup_by_title(rest, seen, unique_results) ==
    IF rest = <<>> THEN unique_results
    ELSE IF Head(rest).title \notin seen
         THEN Adapter_dedup_by_title(Tail(rest), seen \cup {Head(rest).title},
                                     Append(unique_results, Head(rest)))
         ELSE Adapter_dedup_by_title(Tail(rest), seen, unique_results)
Adapter_deduplicate_titles(results) == Adapter_dedup_by_title(results, {}, <<>>)

\* PyplexitySearchAdapter._deduplicate_results
Adapter_deduplicate_results(results) == Adapter_dedup_loop(results, {}, <<>>)

\* a return that de-duplicates and forgets to truncate
Adapter_search_result_untruncated(results, cap) == Adapter_deduplicate_results(results)

\* a return that de-duplicates first and truncates afterwards
Adapter_search_result_dedup_first(results, cap) ==
    SliceTo(Adapter_deduplicate_results(results), cap)

\* return self._deduplicate_results(results[:self.max_results])
Adapter_search_result(results, cap) ==
    Adapter_deduplicate_results(SliceTo(results, cap))

(***************************************************************************)
(* examples/pyplexity_replacement.py: pure parts of SearxngClient.         *)
(***************************************************************************)
Client_local_endpoint == "http://localhost:4000"

\* a resolution that removes one trailing slash and no more
Client_endpoint_one_slash(endpoint) ==
    IF Lower(endpoint) \in {"public", "auto"}
    THEN Client_local_endpoint
    ELSE IF Len(endpoint) > 0 /\ Char(endpoint, Len(endpoint)) = "/"
         THEN SubSeq(endpoint, 1, Len(endpoint) - 1)
         ELSE endpoint

\* SearxngClient.__init__: the endpoint the client resolves to
Client_endpoint(endpoint) ==
    IF Lower(endpoint) \in {"public", "auto"}
    THEN Client_local_endpoint
    ELSE RStrip(endpoint, "/")

\* [engine.strip() for engine in engines if engine and engine.strip()]
Client_valid_engines(engines) ==
    Map(Strip, SelectSeq(engines, LAMBDA e : Len(e) > 0 /\ Len(Strip(e)) > 0))

\* a filter that passes the trimmed list on even when nothing remains in it
Client_search_engines_unchecked(engines) ==
    IF Truthy(engines) THEN Some(Client_valid_engines(engines.val)) ELSE None

\* search_engines of _search_single_language: None unless a valid engine remains
Client_search_engines(engines) ==
    IF Truthy(engines) /\ Len(Client_valid_engines(engines.val)) > 0
    THEN Some(Client_valid_engines(engines.val))
    ELSE None

\* language=language if language != "auto" else "en"
Client_language(language) == IF language # "auto" THEN language ELSE "en"

\* the SearchConfig _search_single_language builds
Client_config(engines, language, pg) ==
    SearchConfig(Client_search_engines(engines), Client_language(language), pg,
                 "MODERATE")

\* SearchResult(...) of one upstream result, pyplexity's shape
Client_convert(r) ==
    [ title |-> r.title, url |-> r.url, content |-> r.content,
      img_src |-> IF r.thumbnail # "" THEN r.thumbnail ELSE NoneStr,
      thumbnail_src |-> IF r.thumbnail # "" THEN r.thumbnail ELSE NoneStr,
      author |-> NoneStr, iframe_src |-> NoneStr ]

\* a translation that wraps the declared kinds and lets any other failure through
Client_search_error_declared_only(e) ==
    IF e.kind \in DeclaredErrors
    THEN [kind |-> "SearchEngineError", text |-> "SearXNG search failed: " \o e.text]
    ELSE e

\* the SearchEngineError _search_single_language raises for the failure e
Client_search_error(e) ==
    IF e.kind \in DeclaredErrors
    THEN [kind |-> "SearchEngineError", text |-> "SearXNG search failed: " \o e.text]
    ELSE [kind |-> "SearchEngineError", text |-> "SearXNG search failed: " \o e.text]

RECURSIVE Client_dedup_loop(_, _, _)
Client_dedup_loop(rest, seen_urls, unique_results) ==
    IF rest = <<>> THEN unique_results
    ELSE IF Head(rest).url \notin seen_urls
         THEN Client_dedup_loop(Tail(rest), seen_urls \cup {Head(rest).url},
                                Append(unique_results, Head(rest)))
         ELSE Client_dedup_loop(Tail(rest), seen_urls, unique_results)

RECURSIVE Client_dedup_keep_last(_)
\* a de-duplication that keeps the last result of each url, not the first
Client_dedup_keep_last(rest) ==
    IF rest = <<>> THEN <<>>
    ELSE IF \E i \in 2..Len(rest) : rest[i].url = Head(rest).url
         THEN Client_dedup_keep_last(Tail(rest))
         ELSE <<Head(rest)>> \o Client_dedup_keep_last(Tail(rest))
Client_deduplicate_keep_last(results) == Client_dedup_keep_last(results)

\* SearxngClient._deduplicate_results
Client_deduplicate_results(results) == Client_dedup_loop(results, {}, <<>>)

(***************************************************************************)
(* State.                                                                  *)
(***************************************************************************)
VARIABLES
    comp,             \* which program runs: "adapter", "client" or a walkthrough
    pc,               \* where it stands
    endpoint_arg,     \* the endpoint the constructor was given
    endpoint,         \* self.endpoint
    active_engines,   \* self.active_engines (adapter)
    search_languages, \* self.search_languages (adapter)
    max_results,      \* self.max_results (adapter)
    local_instance,   \* self.local_instance
    client_instance,  \* the instance pinned on the pyserxng client
    closes,           \* how often the pyserxng client's close() ran
    args,             \* the arguments of the running (or last) call
    languages,        \* the language list the running search iterates
    engines,          \* the engines the running search passes on
    level,            \* safe_search_level of the running search
    idx,              \* position of the loop in languages
    results,          \* results / all_results accumulated so far
    inflight,         \* blocking calls handed to the executor, not yet completed
    issued,           \* the searches this call has delegated, in order
    responses,        \* what the upstream answered to each, in order
    raised,           \* the errors _search_single_language raised, in order
    log,              \* what the call printed or logged, in order
    outcome,          \* how the last call ended
    steps,            \* the client calls a walkthrough has made, in order
    selected,         \* the instances a walkthrough selected
    found,            \* number of results of the walkthrough's general search
    working_instances, \* the online instances the discovery found (basic_usage)
    best_instances,   \* what get_best_instances returned (basic_usage)
    scope             \* the async with block around the adapter, if any

vars == << comp, pc, endpoint_arg, endpoint, active_engines, search_languages,
           max_results, local_instance, client_instance, closes, args, languages,
           engines, level, idx, results, inflight, issued, responses, raised, log,
           outcome, steps, selected, found, working_instances, best_instances,
           scope >>

ctor_vars == << endpoint_arg, endpoint, active_engines, search_languages,
                max_results, local_instance, client_instance >>
call_vars == << args, languages, engines, level, idx, results, inflight, issued,
                responses, raised, log, outcome >>
walk_vars == << steps, selected, found, working_instances, best_instances, scope >>

NoError == [kind |-> "", text |-> ""]
NoOutcome == [op |-> "", kind |-> "none", list |-> <<>>, flag |-> FALSE, error |-> NoError]
Returned(op, list) ==
    [op |-> op, kind |-> "return", list |-> list, flag |-> FALSE, error |-> NoError]
ReturnedBool(op, b) ==
    [op |-> op, kind |-> "return", list |-> <<>>, flag |-> b, error |-> NoError]
Raised(op, e) ==
    [op |-> op, kind |-> "raise", list |-> <<>>, flag |-> FALSE, error |-> e]
NoArgs == [query |-> "", engines |-> None, languages |-> None, page |-> 0, safe_search |-> 0]
NoInstance == [url |-> "", status |-> ""]

\* one line printed or logged
LogLine(lv, what, lang, text, n) ==
    [level |-> lv, what |-> what, language |-> lang, text |-> text, count |-> n]

\* what the upstream answered to one delegated search
Answer(kind, list, e) == [kind |-> kind, results |-> list, error |-> e]

\* no async with block has been entered
NoScope == [state |-> "none", bound |-> "", path |-> ""]

Components == {"adapter", "client", "basic", "local", "quick"}

Init ==
    /\ comp \in Components
    /\ pc = "new"
    /\ endpoint_arg = ""
    /\ endpoint = ""
    /\ active_engines = <<>>
    /\ search_languages = <<>>
    /\ max_results = 0
    /\ local_instance = NoInstance
    /\ client_instance = NoInstance
    /\ closes = 0
    /\ args = NoArgs
    /\ languages = <<>>
    /\ engines = None
    /\ level = ""
    /\ idx = 0
    /\ results = <<>>
    /\ inflight = <<>>
    /\ issued = <<>>
    /\ responses = <<>>
    /\ raised = <<>>
    /\ log = <<>>
    /\ outcome = NoOutcome
    /\ steps = <<>>
    /\ selected = <<>>
    /\ found = 0
    /\ working_instances = <<>>
    /\ best_instances = <<>>
    /\ scope = NoScope

(***************************************************************************)
(* examples/pyplexity_adapter.py: PyplexitySearchAdapter.                  *)
(***************************************************************************)
\* every local and record of a call, as a new call finds them
FreshCall(a) ==
    /\ args' = a
    /\ raised' = <<>>
    /\ responses' = <<>>

\* the error SafeSearchLevel(value) raises for a value that is no member
InvalidLevel == [kind |-> "ValueError", text |-> "not a valid SafeSearchLevel"]

\* PyplexitySearchAdapter.__init__
Adapter_init(Ctors) ==
    /\ comp = "adapter" /\ pc = "new"
    /\ \E c \in Ctors :
          /\ endpoint_arg' = c.endpoint
          /\ endpoint' = c.endpoint
          /\ active_engines' = IF Truthy(c.active_engines) THEN c.active_engines.val
                                ELSE Adapter_default_engines
          /\ search_languages' = IF Truthy(c.search_languages) THEN c.search_languages.val
                                  ELSE Adapter_default_languages
          /\ max_results' = c.max_results
          /\ local_instance' = InstanceInfo(c.endpoint)
          /\ client_instance' = InstanceInfo(c.endpoint)
    /\ pc' = "idle"
    /\ UNCHANGED << comp, closes, call_vars, walk_vars >>

\* the loop is over, or was left by break: truncate, de-duplicate, return
Adapter_finish(i, res, iss, fl) ==
    /\ idx' = i
    /\ results' = res
    /\ issued' = iss
    /\ inflight' = fl
    /\ outcome' = Returned("search", Adapter_search_result(res, max_results))
    /\ pc' = "returned"

\* the for loop takes item i of langs: delegate its search, or finish after the last
Adapter_iterate(langs, engs, lvl, a, i, res, iss, fl) ==
    IF i <= Len(langs)
    THEN LET config == Adapter_config(engs, langs[i], a.page, lvl)
         IN /\ idx' = i
            /\ results' = res
            /\ issued' = Append(iss, config)
            /\ inflight' = Append(fl, SearchCall(a.query, config, local_instance))
            /\ outcome' = NoOutcome
            /\ pc' = "await_search"
    ELSE Adapter_finish(i, res, iss, fl)

\* PyplexitySearchAdapter.search, up to its first await
Adapter_search(Args) ==
    /\ comp = "adapter" /\ pc = "idle"
    /\ \E a \in Args :
       LET search_engines == IF Truthy(a.engines) THEN a.engines.val ELSE active_engines
           search_langs == IF Truthy(a.languages) THEN a.languages.val
                           ELSE search_languages
       IN /\ FreshCall(a)
          /\ log' = <<>>
          /\ engines' = Some(search_engines)
          /\ languages' = search_langs
          /\ IF a.safe_search \in SafeSearchValues
             THEN /\ level' = SafeSearchLevel(a.safe_search)
                  /\ Adapter_iterate(search_langs, search_engines,
                                     SafeSearchLevel(a.safe_search), a, 1, <<>>, <<>>,
                                     inflight)
             ELSE /\ level' = ""
                  /\ idx' = 0
                  /\ results' = <<>>
                  /\ issued' = <<>>
                  /\ inflight' = inflight
                  /\ outcome' = Raised("search", InvalidLevel)
                  /\ pc' = "returned"
    /\ UNCHANGED << comp, ctor_vars, closes, walk_vars >>

\* a loop that breaks only once the collection is longer than the cap
Adapter_search_returns_past_cap ==
    /\ comp = "adapter" /\ pc = "await_search"
    /\ \E resp \in UpstreamLists :
       LET res == results \o Map(Adapter_convert, resp)
       IN /\ IF Len(res) > max_results
             THEN Adapter_finish(idx, res, issued, Tail(inflight))
             ELSE Adapter_iterate(languages, engines.val, level, args, idx + 1, res,
                                  issued, Tail(inflight))
          /\ responses' = Append(responses, Answer("ok", resp, NoError))
    /\ UNCHANGED << comp, ctor_vars, closes, args, languages, engines, level, raised,
                    log, walk_vars >>

\* the delegated search returns: convert, append, break at the cap or go on
Adapter_search_returns ==
    /\ comp = "adapter" /\ pc = "await_search"
    /\ \E resp \in UpstreamLists :
       LET res == results \o Map(Adapter_convert, resp)
       IN /\ IF Len(res) >= max_results
             THEN Adapter_finish(idx, res, issued, Tail(inflight))
             ELSE Adapter_iterate(languages, engines.val, level, args, idx + 1, res,
                                  issued, Tail(inflight))
          /\ responses' = Append(responses, Answer("ok", resp, NoError))
    /\ UNCHANGED << comp, ctor_vars, closes, args, languages, engines, level, raised,
                    log, walk_vars >>

\* a search whose loop does not catch: the language's error ends the call
Adapter_search_raises_uncaught ==
    /\ comp = "adapter" /\ pc = "await_search"
    /\ \E e \in UpstreamErrors :
          /\ outcome' = Raised("search", e)
          /\ responses' = Append(responses, Answer("error", <<>>, e))
    /\ inflight' = Tail(inflight)
    /\ pc' = "returned"
    /\ UNCHANGED << comp, ctor_vars, closes, args, languages, engines, level, idx,
                    results, issued, raised, log, walk_vars >>

\* the delegated search raises: print the diagnostic, continue with the next language
Adapter_search_raises ==
    /\ comp = "adapter" /\ pc = "await_search"
    /\ \E e \in UpstreamErrors :
          /\ log' = Append(log, LogLine("print", "Search failed for language",
                                        languages[idx], e.text, 0))
          /\ Adapter_iterate(languages, engines.val, level, args, idx + 1, results,
                             issued, Tail(inflight))
          /\ responses' = Append(responses, Answer("error", <<>>, e))
    /\ UNCHANGED << comp, ctor_vars, closes, args, languages, engines, level, raised,
                    walk_vars >>

\* a call that runs no search starts: the locals of the last search are gone
NoSearch ==
    /\ FreshCall(NoArgs)
    /\ log' = <<>>
    /\ languages' = <<>>
    /\ engines' = None
    /\ level' = ""
    /\ idx' = 0
    /\ results' = <<>>
    /\ issued' = <<>>

\* PyplexitySearchAdapter.health_check, up to its await
Adapter_health_check ==
    /\ comp = "adapter" /\ pc = "idle"
    /\ NoSearch
    /\ inflight' = Append(inflight, ProbeCall(local_instance))
    /\ outcome' = NoOutcome
    /\ pc' = "await_health"
    /\ UNCHANGED << comp, ctor_vars, closes, walk_vars >>

\* the delegated probe returns b: health_check returns it
Adapter_probe_returns ==
    /\ comp = "adapter" /\ pc = "await_health"
    /\ inflight' = Tail(inflight)
    /\ \E b \in BOOLEAN :
          /\ outcome' = ReturnedBool("health_check", b)
          /\ responses' = Append(responses,
                                 Answer(IF b THEN "true" ELSE "false", <<>>, NoError))
    /\ pc' = "returned"
    /\ UNCHANGED << comp, ctor_vars, closes, args, languages, engines, level, idx,
                    results, issued, raised, log, walk_vars >>

\* a health check that does not catch: the probe's error reaches the caller
Adapter_probe_raises_uncaught ==
    /\ comp = "adapter" /\ pc = "await_health"
    /\ inflight' = Tail(inflight)
    /\ \E e \in UpstreamErrors :
          /\ outcome' = Raised("health_check", e)
          /\ responses' = Append(responses, Answer("error", <<>>, e))
    /\ pc' = "returned"
    /\ UNCHANGED << comp, ctor_vars, closes, args, languages, engines, level, idx,
                    results, issued, raised, log, walk_vars >>

\* the delegated probe raises: health_check returns False
Adapter_probe_raises ==
    /\ comp = "adapter" /\ pc = "await_health"
    /\ inflight' = Tail(inflight)
    /\ outcome' = ReturnedBool("health_check", FALSE)
    /\ \E e \in UpstreamErrors : responses' = Append(responses, Answer("error", <<>>, e))
    /\ pc' = "returned"
    /\ UNCHANGED << comp, ctor_vars, closes, args, languages, engines, level, idx,
                    results, issued, raised, log, walk_vars >>

\* PyplexitySearchAdapter.close
Adapter_close ==
    /\ comp = "adapter" /\ pc = "idle"
    /\ closes < MaxCloses
    /\ NoSearch
    /\ closes' = closes + 1
    /\ outcome' = Returned("close", <<>>)
    /\ pc' = "returned"
    /\ UNCHANGED << comp, ctor_vars, inflight, walk_vars >>

\* PyplexitySearchAdapter.__aenter__: async with adapter as bound
Adapter_aenter ==
    /\ comp = "adapter" /\ pc = "idle"
    /\ scope.state = "none"
    /\ scope' = [state |-> "entered", bound |-> "self", path |-> ""]
    /\ UNCHANGED << comp, pc, ctor_vars, closes, call_vars, steps, selected, found,
                    working_instances, best_instances >>

\* the ways the block leaves: its end, a return, an error of its own code
\* (between two calls of the adapter), or an error a call of the adapter raised
ScopeExits ==
    IF pc = "idle"
    THEN [path : {"normal", "return"}, error : {NoError}]
         \cup [path : {"raise"}, error : UpstreamErrors]
    ELSE IF pc = "returned" /\ outcome.kind = "raise"
         THEN {[path |-> "raise", error |-> outcome.error]}
         ELSE {}

\* an __aexit__ that releases only when the block left without an error
Adapter_aexit_unless_error ==
    /\ comp = "adapter" /\ scope.state = "entered"
    /\ \E x \in ScopeExits :
          /\ scope' = [scope EXCEPT !.state = "exited", !.path = x.path]
          /\ closes' = IF x.path = "raise" THEN closes ELSE closes + 1
          /\ outcome' = IF x.path = "raise" THEN Raised("async with", x.error)
                         ELSE Returned("async with", <<>>)
    /\ NoSearch
    /\ pc' = "returned"
    /\ UNCHANGED << comp, ctor_vars, inflight, steps, selected, found,
                    working_instances, best_instances >>

\* PyplexitySearchAdapter.__aexit__: the block is left, self.close() runs, and
\* an error of the block goes on to the caller
Adapter_aexit ==
    /\ comp = "adapter" /\ scope.state = "entered"
    /\ \E x \in ScopeExits :
          /\ scope' = [scope EXCEPT !.state = "exited", !.path = x.path]
          /\ outcome' = IF x.path = "raise" THEN Raised("async with", x.error)
                         ELSE Returned("async with", <<>>)
    /\ closes' = closes + 1
    /\ NoSearch
    /\ pc' = "returned"
    /\ UNCHANGED << comp, ctor_vars, inflight, steps, selected, found,
                    working_instances, best_instances >>

(***************************************************************************)
(* examples/pyplexity_replacement.py: SearxngClient.                       *)
(***************************************************************************)
\* SearxngClient.__init__
Client_init(Endpoints) ==
    /\ comp = "client" /\ pc = "new"
    /\ \E ep \in Endpoints :
          /\ endpoint_arg' = ep
          /\ endpoint' = Client_endpoint(ep)
          /\ log' = IF Lower(ep) \in {"public", "auto"}
                    THEN <<LogLine("info", "Using local SearXNG instance", "", "", 0)>>
                    ELSE <<>>
          /\ local_instance' = InstanceInfo(Client_endpoint(ep))
          /\ client_instance' = InstanceInfo(Client_endpoint(ep))
    /\ pc' = "idle"
    /\ UNCHANGED << comp, active_engines, search_languages, max_results, closes, args,
                    languages, engines, level, idx, results, inflight, issued,
                    responses, raised, outcome, walk_vars >>

\* after the loop: de-duplicate, log the count, return
Client_finish(i, res, iss, fl, lg) ==
    /\ idx' = i
    /\ results' = res
    /\ issued' = iss
    /\ inflight' = fl
    /\ log' = Append(lg, LogLine("info", "Total unique results", "", "",
                                 Len(Client_deduplicate_results(res))))
    /\ outcome' = Returned("search", Client_deduplicate_results(res))
    /\ pc' = "returned"

\* the for loop takes item i of langs: _search_single_language runs up to its
\* await, or the loop is over
Client_iterate(langs, eng, a, i, res, iss, fl, lg) ==
    IF i <= Len(langs)
    THEN LET config == Client_config(eng, langs[i], a.page)
         IN /\ idx' = i
            /\ results' = res
            /\ issued' = Append(iss, config)
            /\ inflight' = Append(fl, SearchCall(a.query, config, local_instance))
            /\ log' = lg
            /\ outcome' = NoOutcome
            /\ pc' = "await_search"
    ELSE Client_finish(i, res, iss, fl, lg)

\* SearxngClient.search, up to its first await
Client_search(Args) ==
    /\ comp = "client" /\ pc = "idle"
    /\ \E a \in Args :
       LET langs1 == IF ~Truthy(a.languages) THEN <<"auto">> ELSE a.languages.val
       IN /\ FreshCall(a)
          /\ engines' = a.engines
          /\ languages' = langs1
          /\ level' = "MODERATE"
          /\ Client_iterate(langs1, a.engines, a, 1, <<>>, <<>>, inflight, <<>>)
    /\ UNCHANGED << comp, ctor_vars, closes, walk_vars >>

\* the delegated search returns: the step converts and returns, search extends
\* all_results and logs the count when the list is not empty
Client_search_returns ==
    /\ comp = "client" /\ pc = "await_search"
    /\ \E resp \in UpstreamLists :
       LET lang_results == Map(Client_convert, resp)
       IN /\ IF Len(lang_results) > 0
             THEN Client_iterate(languages, engines, args, idx + 1,
                                 results \o lang_results, issued, Tail(inflight),
                                 Append(log, LogLine("info", "Language found",
                                                     languages[idx], "",
                                                     Len(lang_results))))
             ELSE Client_iterate(languages, engines, args, idx + 1, results, issued,
                                 Tail(inflight), log)
          /\ responses' = Append(responses, Answer("ok", resp, NoError))
    /\ UNCHANGED << comp, ctor_vars, closes, args, languages, engines, level, raised,
                    walk_vars >>

\* a search whose loop does not catch: the step's error ends the call
Client_search_raises_uncaught ==
    /\ comp = "client" /\ pc = "await_search"
    /\ \E e \in UpstreamErrors :
          /\ raised' = Append(raised, Client_search_error(e))
          /\ outcome' = Raised("search", Client_search_error(e))
          /\ responses' = Append(responses, Answer("error", <<>>, e))
    /\ inflight' = Tail(inflight)
    /\ pc' = "returned"
    /\ UNCHANGED << comp, ctor_vars, closes, args, languages, engines, level, idx,
                    results, issued, log, walk_vars >>

\* the delegated search raises: the step raises SearchEngineError, search logs a
\* warning and continues with the next language
Client_search_raises ==
    /\ comp = "client" /\ pc = "await_search"
    /\ \E e \in UpstreamErrors :
          /\ raised' = Append(raised, Client_search_error(e))
          /\ Client_iterate(languages, engines, args, idx + 1, results, issued,
                            Tail(inflight),
                            Append(log, LogLine("warning", "Search error for language",
                                                languages[idx],
                                                Client_search_error(e).text, 0)))
          /\ responses' = Append(responses, Answer("error", <<>>, e))
    /\ UNCHANGED << comp, ctor_vars, closes, args, languages, engines, level,
                    walk_vars >>

\* SearxngClient.health_check, up to its await
Client_health_check ==
    /\ comp = "client" /\ pc = "idle"
    /\ NoSearch
    /\ inflight' = Append(inflight, ProbeCall(local_instance))
    /\ outcome' = NoOutcome
    /\ pc' = "await_health"
    /\ UNCHANGED << comp, ctor_vars, closes, walk_vars >>

\* the delegated probe returns b: health_check returns it
Client_probe_returns ==
    /\ comp = "client" /\ pc = "await_health"
    /\ inflight' = Tail(inflight)
    /\ \E b \in BOOLEAN :
          /\ outcome' = ReturnedBool("health_check", b)
          /\ responses' = Append(responses,
                                 Answer(IF b THEN "true" ELSE "false", <<>>, NoError))
    /\ pc' = "returned"
    /\ UNCHANGED << comp, ctor_vars, closes, args, languages, engines, level, idx,
                    results, issued, raised, log, walk_vars >>

\* the delegated probe raises: health_check returns False
Client_probe_raises ==
    /\ comp = "client" /\ pc = "await_health"
    /\ inflight' = Tail(inflight)
    /\ outcome' = ReturnedBool("health_check", FALSE)
    /\ \E e \in UpstreamErrors : responses' = Append(responses, Answer("error", <<>>, e))
    /\ pc' = "returned"
    /\ UNCHANGED << comp, ctor_vars, closes, args, languages, engines, level, idx,
                    results, issued, raised, log, walk_vars >>

\* SearxngClient.close
Client_close ==
    /\ comp = "client" /\ pc = "idle"
    /\ closes < MaxCloses
    /\ NoSearch
    /\ closes' = closes + 1
    /\ outcome' = Returned("close", <<>>)
    /\ pc' = "returned"
    /\ UNCHANGED << comp, ctor_vars, inflight, walk_vars >>

\* the caller has the call's result and goes on: the call's locals are gone
Caller_resumes ==
    /\ comp \in {"adapter", "client"} /\ pc = "returned"
    /\ NoSearch
    /\ outcome' = NoOutcome
    /\ pc' = "idle"
    /\ UNCHANGED << comp, ctor_vars, closes, inflight, walk_vars >>

(***************************************************************************)
(* examples/basic_usage.py: main.                                          *)
(***************************************************************************)
\* most instances get_instances returns
MaxInstances == 6
\* most results the walkthrough's general search returns
MaxFound == 1
\* limit=5 of get_best_instances
BestLimit == 5
\* working_instances[:5]
FallbackLimit == 5

\* the i-th instance the discovery knows
Instance(i, status) == [url |-> "http://instance" \o ToString(i), status |-> status]
\* a list get_instances can return, by the statuses of its instances
InstanceList(statuses) == [i \in 1..Len(statuses) |-> Instance(i, statuses[i])]
InstanceLists == {InstanceList(s) : s \in SeqsOf({"online", "error"}, 0, MaxInstances)}
\* a list get_best_instances(limit=5) can return
BestLists == {InstanceList([i \in 1..n |-> "online"]) : n \in 0..BestLimit}

\* one print of the walkthrough
Printed(lg, what) == Append(lg, LogLine("print", what, "", "", 0))

\* an uncaught error ends main where it stands: nothing after it runs
Basic_abort(step, e) ==
    /\ steps' = Append(steps, step)
    /\ outcome' = Raised("main", e)
    /\ pc' = "done"
    /\ UNCHANGED << comp, ctor_vars, closes, args, languages, engines, level, idx,
                    results, inflight, issued, responses, raised, log, selected, found,
                    working_instances, best_instances, scope >>

\* a step of main that changes only where main stands and what it printed
Basic_step(step, next, lg) ==
    /\ steps' = Append(steps, step)
    /\ log' = lg
    /\ pc' = next
    /\ UNCHANGED << comp, ctor_vars, closes, args, languages, engines, level, idx,
                    results, inflight, issued, responses, raised, outcome, selected,
                    found, working_instances, best_instances, scope >>

\* client = SearXNGClient(); client.update_instances()
Basic_update_instances ==
    /\ comp = "basic" /\ pc = "new"
    /\ \/ Basic_step("update_instances", "b_instances", log)
       \/ \E e \in UpstreamErrors : Basic_abort("update_instances", e)

\* a selection that falls back to every online instance
Basic_select_all_working(best, working) ==
    IF Len(best) > 0 THEN best
    ELSE IF Len(working) > 0 THEN working
    ELSE <<>>

\* the selection among best_instances and working_instances[:5] (a list of
\* instances), or <<>> when both are empty
Basic_select(best, working) ==
    IF Len(best) > 0 THEN best
    ELSE IF Len(working) > 0 THEN SliceTo(working, FallbackLimit)
    ELSE <<>>

\* instances = client.get_instances(include_tor=False); the online filter;
\* best_instances = client.get_best_instances(limit=5); the selection, or the exit
Basic_discover ==
    /\ comp = "basic" /\ pc = "b_instances"
    /\ \E instances \in InstanceLists, best \in BestLists :
       LET working == SelectSeq(instances, LAMBDA inst : inst.status = "online")
           chosen == Basic_select(best, working)
       IN /\ steps' = steps \o <<"get_instances", "get_best_instances">>
          /\ working_instances' = working
          /\ best_instances' = best
          /\ selected' = chosen
          /\ IF Len(best) > 0 \/ Len(working) > 0
             THEN /\ pc' = "b_search"
                  /\ log' = log
                  /\ outcome' = outcome
             ELSE /\ pc' = "done"
                  /\ log' = Printed(log, "No instances available. Exiting.")
                  /\ outcome' = Returned("main", <<>>)
    /\ UNCHANGED << comp, ctor_vars, closes, args, languages, engines, level, idx,
                    results, inflight, issued, responses, raised, found, scope >>

\* results = client.search("Python programming"): printed, or the failure is
\* printed and main returns
Basic_search ==
    /\ comp = "basic" /\ pc = "b_search"
    /\ steps' = Append(steps, "search")
    /\ \/ \E n \in 0..MaxFound :
            /\ found' = n
            /\ log' = Printed(log, "Found results")
            /\ outcome' = outcome
            /\ pc' = "b_image"
       \/ /\ found' = found
          /\ log' = Printed(log, "Search failed")
          /\ outcome' = Returned("main", <<>>)
          /\ pc' = "done"
    /\ UNCHANGED << comp, ctor_vars, closes, args, languages, engines, level, idx,
                    results, inflight, issued, responses, raised, selected,
                    working_instances, best_instances, scope >>

\* image_results = client.search("cute cats", config), its failure caught
Basic_image_search ==
    /\ comp = "basic" /\ pc = "b_image"
    /\ \E ok \in BOOLEAN : Basic_step("search_images", "b_news",
                  Printed(log, IF ok THEN "Found image results" ELSE "Image search failed"))

\* news_results = client.search_news("artificial intelligence"), its failure caught
Basic_news_search ==
    /\ comp = "basic" /\ pc = "b_news"
    /\ \E ok \in BOOLEAN : Basic_step("search_news", "b_probe",
                  Printed(log, IF ok THEN "Found news results" ELSE "News search failed"))

\* client.test_instance(instances[0], "test query"), outside any try
Basic_test_instance ==
    /\ comp = "basic" /\ pc = "b_probe"
    /\ Len(selected) > 0
    /\ \/ \E b \in BOOLEAN :
            Basic_step("test_instance", "b_stats",
                       Printed(log, IF b THEN "Instance is working"
                                         ELSE "Instance is not working"))
       \/ \E e \in UpstreamErrors : Basic_abort("test_instance", e)

\* stats = client.get_stats(), outside any try; then whether to export
Basic_get_stats ==
    /\ comp = "basic" /\ pc = "b_stats"
    /\ \/ Basic_step("get_stats", IF found > 0 THEN "b_export" ELSE "b_suggest",
                      Printed(log, "Client statistics"))
       \/ \E e \in UpstreamErrors : Basic_abort("get_stats", e)

\* the two export_search_results calls, their failure caught
Basic_export ==
    /\ comp = "basic" /\ pc = "b_export"
    /\ \E ok \in BOOLEAN : Basic_step("export_search_results", "b_suggest",
                  Printed(log, IF ok THEN "Results exported" ELSE "Export failed"))

\* client.get_suggestions("machine learn"), its failure caught; client.close()
Basic_suggestions ==
    /\ comp = "basic" /\ pc = "b_suggest"
    /\ steps' = steps \o <<"get_suggestions", "close">>
    /\ \E ok \in BOOLEAN : log' = Printed(Printed(log, IF ok THEN "Suggestions" ELSE "Failed to get suggestions"),
                    "Done!")
    /\ closes' = closes + 1
    /\ outcome' = Returned("main", <<>>)
    /\ pc' = "done"
    /\ UNCHANGED << comp, ctor_vars, args, languages, engines, level, idx, results,
                    inflight, issued, responses, raised, selected, found,
                    working_instances, best_instances, scope >>

(***************************************************************************)
(* examples/local_instance.py: main and quick_local_search.                *)
(***************************************************************************)
\* url="http://localhost:8888" of the hand-made instance
Local_url == "http://localhost:8888"

\* an uncaught error ends the walkthrough where it stands: nothing after it runs
Local_abort(step, e) ==
    /\ steps' = Append(steps, step)
    /\ outcome' = Raised("main", e)
    /\ pc' = "done"
    /\ UNCHANGED << comp, ctor_vars, closes, args, languages, engines, level, idx,
                    results, inflight, issued, responses, raised, log, selected, found,
                    working_instances, best_instances, scope >>

\* a step of the walkthrough that changes only where it stands and what it printed
Local_step(step, next, lg) ==
    /\ steps' = Append(steps, step)
    /\ log' = lg
    /\ pc' = next
    /\ UNCHANGED << comp, ctor_vars, closes, args, languages, engines, level, idx,
                    results, inflight, issued, responses, raised, outcome, selected,
                    found, working_instances, best_instances, scope >>

\* client = SearXNGClient(config); local_instance = InstanceInfo(...);
\* is_working = client.test_instance(local_instance, "test"), outside any try;
\* if not is_working: the guidance is printed and main returns
Local_probe ==
    /\ comp = "local" /\ pc = "new"
    /\ \/ /\ steps' = Append(steps, "test_instance")
          /\ local_instance' = InstanceInfo(Local_url)
          /\ \E is_working \in BOOLEAN :
                IF is_working
                THEN /\ log' = Printed(log, "Local instance is working!")
                     /\ outcome' = outcome
                     /\ pc' = "l_pin"
                ELSE /\ log' = Printed(Printed(Printed(log,
                                   "Local instance is not accessible!"),
                                   "Make sure SearXNG is running"),
                                   "Or update the URL in this script")
                     /\ outcome' = Returned("main", <<>>)
                     /\ pc' = "done"
          /\ UNCHANGED << comp, endpoint_arg, endpoint, active_engines,
                          search_languages, max_results, client_instance, closes,
                          args, languages, engines, level, idx, results, inflight,
                          issued, responses, raised, selected, found,
                          working_instances, best_instances, scope >>
       \/ \E e \in UpstreamErrors :
             /\ local_instance' = InstanceInfo(Local_url)
             /\ steps' = Append(steps, "test_instance")
             /\ outcome' = Raised("main", e)
             /\ pc' = "done"
             /\ UNCHANGED << comp, endpoint_arg, endpoint, active_engines,
                             search_languages, max_results, client_instance, closes,
                             args, languages, engines, level, idx, results, inflight,
                             issued, responses, raised, log, selected, found,
                             working_instances, best_instances, scope >>

\* client.set_instance(local_instance)
Local_set_instance ==
    /\ comp = "local" /\ pc = "l_pin"
    /\ steps' = Append(steps, "set_instance")
    /\ client_instance' = local_instance
    /\ pc' = "l_search"
    /\ UNCHANGED << comp, endpoint_arg, endpoint, active_engines, search_languages,
                    max_results, local_instance, closes, call_vars, selected, found,
                    working_instances, best_instances, scope >>

\* a try block around each search alone: after a failure the next search follows
Local_try_each(step, next, what) ==
    \/ Local_step(step, next, Printed(log, what))
    \/ Local_step(step, next, Printed(log, "Search failed"))

\* one search of the try block: it succeeds and the next one follows, or it
\* raises, the except prints, and the rest of the block is skipped
Local_try(step, next, what) ==
    \/ Local_step(step, next, Printed(log, what))
    \/ Local_step(step, "l_stats", Printed(log, "Search failed"))

\* results = client.search("python tutorial")
Local_search ==
    /\ comp = "local" /\ pc = "l_search"
    /\ Local_try("search", "l_image", "Found results")

\* image_results = client.search_images("nature photography")
Local_image_search ==
    /\ comp = "local" /\ pc = "l_image"
    /\ Local_try("search_images", "l_news", "Found images")

\* news_results = client.search_news("technology")
Local_news_search ==
    /\ comp = "local" /\ pc = "l_news"
    /\ Local_try("search_news", "l_custom", "Found news articles")

\* custom_results = client.search("artificial intelligence", custom_config)
Local_custom_search ==
    /\ comp = "local" /\ pc = "l_custom"
    /\ Local_try("search_custom", "l_stats", "Found results with custom config")

\* stats = client.get_stats(), outside any try; client.close()
Local_get_stats ==
    /\ comp = "local" /\ pc = "l_stats"
    /\ \/ /\ steps' = steps \o <<"get_stats", "close">>
          /\ log' = Printed(Printed(log, "Client statistics"), "Done!")
          /\ closes' = closes + 1
          /\ outcome' = Returned("main", <<>>)
          /\ pc' = "done"
          /\ UNCHANGED << comp, ctor_vars, args, languages, engines, level, idx,
                          results, inflight, issued, responses, raised, selected,
                          found, working_instances, best_instances, scope >>
       \/ \E e \in UpstreamErrors : Local_abort("get_stats", e)

\* what quick_local_search returns when its search failed: None
ReturnedNone(op) ==
    [op |-> op, kind |-> "return None", list |-> <<>>, flag |-> FALSE, error |-> NoError]

\* quick_local_search, its try block: client = SearXNGClient();
\* results = client.search(query, instance=local_instance); return results, or
\* the except prints and returns None
Quick_search ==
    /\ comp = "quick" /\ pc = "new"
    /\ steps' = Append(steps, "search")
    /\ local_instance' = [url |-> Local_url, status |-> ""]
    /\ \/ \E resp \in UpstreamLists :
            /\ log' = Printed(log, "Found results")
            /\ outcome' = Returned("quick_local_search", resp)
       \/ /\ log' = Printed(log, "Local search failed")
          /\ outcome' = ReturnedNone("quick_local_search")
    /\ pc' = "q_finally"
    /\ UNCHANGED << comp, endpoint_arg, endpoint, active_engines, search_languages,
                    max_results, client_instance, closes, args, languages, engines,
                    level, idx, results, inflight, issued, responses, raised, selected,
                    found, working_instances, best_instances, scope >>

\* quick_local_search, its finally block: client.close(), then the return
Quick_finally ==
    /\ comp = "quick" /\ pc = "q_finally"
    /\ steps' = Append(steps, "close")
    /\ closes' = closes + 1
    /\ pc' = "done"
    /\ UNCHANGED << comp, ctor_vars, args, languages, engines, level, idx, results,
                    inflight, issued, responses, raised, log, outcome, selected, found,
                    working_instances, best_instances, scope >>

\* the Local Instance Walkthrough and the helper under the answers of the client
LocalNext ==
    \/ Local_probe
    \/ Local_set_instance
    \/ Local_search
    \/ Local_image_search
    \/ Local_news_search
    \/ Local_custom_search
    \/ Local_get_stats
    \/ Quick_search
    \/ Quick_finally

(***************************************************************************)
(* Inputs and specifications.                                              *)
(***************************************************************************)
\* the adapter under the calls of a caller: Ctors are the argument records of
\* the constructor, Args those of search
AdapterNext(Ctors, Args) ==
    \/ Adapter_init(Ctors)
    \/ Adapter_search(Args)
    \/ Adapter_search_returns
    \/ Adapter_search_raises
    \/ Adapter_health_check
    \/ Adapter_probe_returns
    \/ Adapter_probe_raises
    \/ Adapter_close

\* the client under the calls of a caller
ClientNext(Endpoints, Args) ==
    \/ Client_init(Endpoints)
    \/ Client_search(Args)
    \/ Client_search_returns
    \/ Client_search_raises
    \/ Client_health_check
    \/ Client_probe_returns
    \/ Client_probe_raises
    \/ Client_close

\* the Basic Usage Walkthrough under the answers of the pyserxng client
BasicNext ==
    \/ Basic_update_instances
    \/ Basic_discover
    \/ Basic_search
    \/ Basic_image_search
    \/ Basic_news_search
    \/ Basic_test_instance
    \/ Basic_get_stats
    \/ Basic_export
    \/ Basic_suggestions

Queries == {"artificial intelligence"}

\* Spec: multi-language calls over few argument values.
\* language tokens a caller passes
LangTokens == {"auto", "ru"}
LangArgs == {None} \cup {Some(l) : l \in SeqsOf(LangTokens, 1, MaxLangs)}
\* safe_search values a caller passes: a level, and a number that is no level
SafeSearchArgs == {1, 3}
CtorArgs ==
    [ endpoint : {"http://localhost:8888/"}, active_engines : {None},
      search_languages : {None, Some(<<"ru", "auto">>)}, max_results : 0..MaxCap ]
SearchArgs ==
    [ query : Queries, engines : {None}, languages : LangArgs, page : {1},
      safe_search : SafeSearchArgs ]

Next ==
    \/ AdapterNext(CtorArgs, SearchArgs)
    \/ ClientNext({"http://localhost:8888/"}, SearchArgs)
    \/ Caller_resumes
    \/ BasicNext
    \/ LocalNext

Spec == Init /\ [][Next]_vars

\* SpecWide: one-language calls over many argument values.
\* "auto" and "public" in every mix of upper and lower case
CaseMixes(word) ==
    LET RECURSIVE Mix(_)
        Mix(i) == IF i > Len(word) THEN {""}
                  ELSE {c \o rest : c \in {Char(word, i), Char(UpperAlpha,
                            CHOOSE k \in 1..Len(LowerAlpha) : Char(LowerAlpha, k) = Char(word, i))},
                                    rest \in Mix(i + 1)}
    IN Mix(1)
WideEndpoints ==
    CaseMixes("auto") \cup CaseMixes("public") \cup
    { "", "/", "//", "h", "h/", "h//", "h///", "/h", "h/h", "h//h/", "auto/", "/auto",
      "AUTO/", "public/", "auto ", "automatic", "http://localhost:4000",
      "http://localhost:4000/", "http://localhost:8888//", "https://searx.example/" }
\* engine names a caller passes, blank ones and padded ones among them
WideEngineNames == {"", " ", " \t", "google", " bing ", "\tduckduckgo"}
WideEngineArgs == {None} \cup {Some(l) : l \in SeqsOf(WideEngineNames, 0, 2)}
WideLangTokens == {"auto", "Auto", "AUTO", "en", "ru", ""}
WideLangArgs == {Some(<<l>>) : l \in WideLangTokens}
WideAdapterCtorArgs ==
    { [ endpoint |-> "http://localhost:4000", active_engines |-> None,
        search_languages |-> None, max_results |-> 1 ],
      [ endpoint |-> "http://localhost:4000", active_engines |-> Some(<<>>),
        search_languages |-> Some(<<>>), max_results |-> 1 ],
      [ endpoint |-> "http://localhost:8888", active_engines |-> Some(<<"duckduckgo">>),
        search_languages |-> Some(<<"en">>), max_results |-> MaxCap ] }
\* every engine list and language with one language per call, and the
\* constructor's languages with the other arguments fixed
WideSearchArgs ==
    [ query : Queries, engines : WideEngineArgs, languages : WideLangArgs,
      page : {1, 2}, safe_search : {0, 1, 2, 3} ]
    \cup [ query : Queries, engines : {None}, languages : {None, Some(<<>>)},
           page : {1}, safe_search : {1} ]
InitWide == Init /\ comp \in {"adapter", "client"}

NextWide ==
    \/ AdapterNext(WideAdapterCtorArgs, WideSearchArgs)
    \/ ClientNext({"http://localhost:4000"}, WideSearchArgs)
    \/ Caller_resumes

SpecWide == InitWide /\ [][NextWide]_vars

\* SpecInit: construction over many endpoints, then the calls that take no
\* argument.
NextInit ==
    \/ Adapter_init([ endpoint : WideEndpoints, active_engines : {None},
                       search_languages : {None}, max_results : {MaxCap} ])
    \/ Adapter_health_check
    \/ Adapter_probe_returns
    \/ Adapter_probe_raises
    \/ Adapter_close
    \/ Client_init(WideEndpoints)
    \/ Client_health_check
    \/ Client_probe_returns
    \/ Client_probe_raises
    \/ Client_close
    \/ Caller_resumes

SpecInit == InitWide /\ [][NextInit]_vars

\* SpecScope: the adapter inside and around one async with block.
ScopeCtorArgs ==
    [ endpoint : {"http://localhost:4000"}, active_engines : {None},
      search_languages : {Some(<<"auto", "ru">>)}, max_results : {1, MaxCap} ]
ScopeSearchArgs ==
    [ query : Queries, engines : {None}, languages : {None}, page : {1},
      safe_search : SafeSearchArgs ]
InitScope == Init /\ comp = "adapter"

NextScope ==
    \/ AdapterNext(ScopeCtorArgs, ScopeSearchArgs)
    \/ Adapter_aenter
    \/ Adapter_aexit
    \/ Caller_resumes

SpecScope == InitScope /\ [][NextScope]_vars

(***************************************************************************)
(* Properties.                                                             *)
(***************************************************************************)
\* a search call has returned a list to its caller
SearchReturned == pc = "returned" /\ outcome.op = "search" /\ outcome.kind = "return"
\* a search call is running or has just ended
InSearch == pc = "await_search" \/ (pc = "returned" /\ outcome.op = "search")
\* the answers of the upstream that were failures, in order
Failures == SelectSeq(responses, LAMBDA r : r.kind = "error")
\* the urls of the results the upstream returned to this call
AnsweredUrls ==
    UNION { {responses[i].results[k].url : k \in 1..Len(responses[i].results)} :
            i \in 1..Len(responses) }
\* the urls of a list of results
UrlsOf(list) == {list[k].url : k \in 1..Len(list)}

\* C1: the list a search returns, on either adapter, holds no two entries with
\* an equal url.
C1_NoDuplicateUrls ==
    comp \in {"adapter", "client"} /\ outcome.op = "search" /\ outcome.kind = "return"
    => \A i, j \in 1..Len(outcome.list) :
          i # j => outcome.list[i].url # outcome.list[j].url

\* C1 happens: the upstream repeated a url inside one language's list and again
\* in the next language's, and the search returned the url once.
C1_RepeatedUrlReturnedOnce ==
    /\ comp = "client" /\ SearchReturned
    /\ Len(responses) = 2
    /\ Len(responses[1].results) = 2
    /\ responses[1].results[1].url = responses[1].results[2].url
    /\ Len(responses[2].results) = 1
    /\ responses[2].results[1].url = responses[1].results[1].url
    /\ Len(outcome.list) = 1

\* C2: the list the first adapter's search returns is never longer than
\* max_results.
C2_WithinMaxResults ==
    comp = "adapter" /\ SearchReturned => Len(outcome.list) <= max_results

\* C2 happens: the upstream returned more than max_results, and the search
\* returned exactly max_results of them.
C2_Truncated ==
    /\ comp = "adapter" /\ SearchReturned
    /\ max_results >= 1
    /\ \A i \in 1..Len(responses) : Len(responses[i].results) >= max_results
    /\ Len(results) > max_results
    /\ Len(outcome.list) = max_results

\* C3: every error the per-language step of the second adapter raises is a
\* SearchEngineError whose message is "SearXNG search failed: " followed by the
\* text of the failure the upstream raised, of a declared kind or not.
C3_OnlySearchEngineError ==
    comp = "client" /\ InSearch
    => /\ Len(raised) = Len(Failures)
       /\ \A i \in 1..Len(raised) :
             /\ raised[i].kind = "SearchEngineError"
             /\ raised[i].text = "SearXNG search failed: " \o Failures[i].error.text

\* C3 happens: the step has failed with a declared kind and with an undeclared one.
C3_BothKindsRaised ==
    /\ comp = "client" /\ InSearch
    /\ Len(raised) = 2
    /\ \E i, j \in 1..Len(Failures) :
          /\ Failures[i].error.kind = "RateLimitError"
          /\ Failures[j].error.kind = "RuntimeError"

\* C4: the second adapter's search always returns, having searched every
\* language of its list; what the languages that succeeded found is in the
\* returned list, and the list is empty when every language failed.
C4_FailuresContained ==
    comp = "client" /\ pc = "returned" /\ outcome.op = "search"
    => /\ outcome.kind = "return"
       /\ Len(responses) = Len(languages)
       /\ UrlsOf(outcome.list) = AnsweredUrls
       /\ (Len(Failures) = Len(languages) => outcome.list = <<>>)

\* C4 happens: a search over two or more languages all of which failed has
\* returned the empty list.
C4_AllLanguagesFailed ==
    /\ comp = "client" /\ SearchReturned
    /\ Len(languages) >= 2
    /\ Len(Failures) = Len(languages)
    /\ outcome.list = <<>>

\* s with its last character removed when that character is a slash
WithoutOneSlash(s) ==
    IF Len(s) > 0 /\ Char(s, Len(s)) = "/" THEN SubSeq(s, 1, Len(s) - 1) ELSE s
\* the endpoint arguments that select the local service
LocalKeywords == CaseMixes("auto") \cup CaseMixes("public")

\* C5: the second adapter resolves "public" and "auto", in any mix of case, to
\* "http://localhost:4000"; any other argument resolves to the argument without
\* its trailing slashes, all of them: what is cut off is slashes only, and what
\* remains does not end in a slash.
C5_EndpointResolution ==
    comp = "client" /\ pc # "new"
    => IF endpoint_arg \in LocalKeywords
       THEN endpoint = "http://localhost:4000"
       ELSE /\ Len(endpoint) <= Len(endpoint_arg)
            /\ endpoint = SubSeq(endpoint_arg, 1, Len(endpoint))
            /\ \A i \in Len(endpoint) + 1..Len(endpoint_arg) : Char(endpoint_arg, i) = "/"
            /\ (Len(endpoint) > 0 => Char(endpoint, Len(endpoint)) # "/")

\* C5 as the specification words it: any other argument resolves to the
\* argument with at most one trailing slash removed.
C5_AtMostOneSlashRemoved ==
    comp = "client" /\ pc # "new"
    => IF endpoint_arg \in LocalKeywords
       THEN endpoint = "http://localhost:4000"
       ELSE endpoint = WithoutOneSlash(endpoint_arg)

\* C5 happens: an argument that ends in two slashes has lost both.
C5_TwoSlashesRemoved ==
    /\ comp = "client" /\ pc = "idle"
    /\ endpoint_arg = "http://localhost:8888//"
    /\ endpoint = "http://localhost:8888"

\* C6: with a safe_search that is a level (0, 1 or 2) the first adapter's
\* search returns and never raises: each language that failed printed one
\* diagnostic and contributed nothing, and a language was left unsearched only
\* because the cap was reached.  With any other safe_search the call raises
\* ValueError before it searches any language.
C6_NeverRaisesForALevel ==
    comp = "adapter" /\ pc = "returned" /\ outcome.op = "search"
    => IF args.safe_search \in {0, 1, 2}
       THEN /\ outcome.kind = "return"
            /\ Len(log) = Len(Failures)
            /\ \A i \in 1..Len(log) :
                  /\ log[i].what = "Search failed for language"
                  /\ log[i].text = Failures[i].error.text
            /\ UrlsOf(results) = AnsweredUrls
            /\ (Len(responses) < Len(languages) => Len(results) >= max_results)
       ELSE /\ outcome.kind = "raise"
            /\ outcome.error.kind = "ValueError"
            /\ issued = <<>>

\* C6 as the specification words it: for any arguments, the first adapter's
\* search never raises to its caller.
C6_NeverRaises ==
    comp = "adapter" /\ outcome.op = "search" => outcome.kind # "raise"

\* C6 happens: the first language failed, the search printed the diagnostic,
\* searched the second language and returned what that one found.
C6_FailureThenResults ==
    /\ comp = "adapter" /\ SearchReturned
    /\ Len(responses) = 2
    /\ responses[1].kind = "error"
    /\ responses[2].kind = "ok"
    /\ Len(log) = 1
    /\ Len(outcome.list) >= 1

\* C7: health_check, on either adapter, runs one probe with the query "test"
\* against the pinned local instance, returns the boolean the probe returned,
\* returns False when the probe raised, and never raises.
C7_HealthCheckNeverRaises ==
    comp \in {"adapter", "client"}
    => /\ pc = "await_health"
          => /\ Len(inflight) = 1
             /\ inflight[1].op = "test_instance"
             /\ inflight[1].query = "test"
             /\ inflight[1].instance = [url |-> endpoint, status |-> "online"]
       /\ pc = "returned" /\ outcome.op = "health_check"
          => /\ outcome.kind = "return"
             /\ Len(responses) = 1
             /\ outcome.flag = (responses[1].kind = "true")

\* C7 happens: the probe raised and health_check returned False.
C7_ProbeRaisedReturnedFalse ==
    /\ comp = "adapter" /\ pc = "returned" /\ outcome.op = "health_check"
    /\ responses[1].kind = "error"
    /\ outcome.kind = "return" /\ ~outcome.flag

\* every character of e is whitespace
Blank(e) == \A i \in 1..Len(e) : Char(e, i) \in Whitespace
\* t is e without the whitespace at its two ends
IsTrimOf(t, e) ==
    /\ Len(t) > 0
    /\ Char(t, 1) \notin Whitespace /\ Char(t, Len(t)) \notin Whitespace
    /\ \E a \in 0..Len(e) :
          /\ a + Len(t) <= Len(e)
          /\ t = SubSeq(e, a + 1, a + Len(t))
          /\ \A i \in 1..a : Char(e, i) \in Whitespace
          /\ \A i \in a + Len(t) + 1..Len(e) : Char(e, i) \in Whitespace

\* C8: every search the second adapter delegates leaves the engines unset when
\* the engine list is absent, empty or holds only blank entries, and otherwise
\* carries exactly the non-blank entries, trimmed, in their order; the search
\* is in flight with that configuration.
C8_EngineFiltering ==
    comp = "client" /\ InSearch
    => LET given == IF args.engines.isNone THEN <<>>
                    ELSE SelectSeq(args.engines.val, LAMBDA e : ~Blank(e))
       IN /\ \A i \in 1..Len(issued) :
                IF given = <<>>
                THEN issued[i].engines.isNone
                ELSE /\ ~issued[i].engines.isNone
                     /\ Len(issued[i].engines.val) = Len(given)
                     /\ \A k \in 1..Len(given) :
                           IsTrimOf(issued[i].engines.val[k], given[k])
          /\ pc = "await_search"
             => /\ Len(inflight) = 1
                /\ inflight[1].config = issued[Len(issued)]

\* C8 happens: a search whose two engines are both blank is in flight with the
\* engines unset.
C8_AllBlankUnset ==
    /\ comp = "client" /\ pc = "await_search"
    /\ ~args.engines.isNone
    /\ Len(args.engines.val) = 2
    /\ \A k \in 1..2 : Blank(args.engines.val[k])
    /\ inflight[1].config.engines.isNone

\* C9: in both adapters the language of the i-th delegated search is "en" when
\* the i-th token of the language list is exactly "auto", and the token itself
\* otherwise.
C9_AutoBecomesEn ==
    comp \in {"adapter", "client"} /\ InSearch
    => /\ Len(issued) <= Len(languages)
       /\ \A i \in 1..Len(issued) :
             issued[i].language = IF languages[i] = "auto" THEN "en" ELSE languages[i]

\* C9 happens: a search over "auto" and then another token has searched "en"
\* and then that token.
C9_AutoThenOther ==
    /\ comp = "adapter" /\ InSearch
    /\ Len(issued) >= 2
    /\ languages[1] = "auto" /\ issued[1].language = "en"
    /\ languages[2] # "auto" /\ issued[2].language = languages[2]

\* the client calls that follow the general search in the walkthrough
LaterSteps == {"search_images", "search_news", "test_instance", "get_stats",
               "get_suggestions", "close"}
\* the walkthrough's general search failed
GeneralSearchFailed == \E i \in 1..Len(log) : log[i].what = "Search failed"
\* the client calls the walkthrough has made
StepsRun == {steps[i] : i \in 1..Len(steps)}

\* C10: when the general search of the Basic Usage Walkthrough has failed and
\* the walkthrough is over, it has still run the image search, the news search,
\* the probe, the statistics, the suggestions and the release.
C10_LaterStepsStillRun ==
    comp = "basic" /\ pc = "done" /\ GeneralSearchFailed
    /\ outcome.kind = "return"
    => LaterSteps \subseteq StepsRun

\* the line what has been printed
HasPrinted(what) == \E i \in 1..Len(log) : log[i].what = what
\* how many lines what have been printed
TimesPrinted(what) == Len(SelectSeq(log, LAMBDA l : l.what = what))

\* C11: a walkthrough or helper that has ended by returning has released its
\* client exactly once.
C11_ReleasedExactlyOnce ==
    comp \in {"basic", "local", "quick"} /\ pc = "done" /\ outcome.kind # "raise"
    => closes = 1

\* the searches of the Local Instance Walkthrough, in the order of its code
LocalSearches == <<"search", "search_images", "search_news", "search_custom">>
\* the searches a walkthrough has issued, in order
SearchesIssued ==
    SelectSeq(steps, LAMBDA x : x \in {"search", "search_images", "search_news",
                                       "search_custom"})
\* the probe of the Local Instance Walkthrough returned true
ProbeSucceeded == HasPrinted("Local instance is working!")
\* the probe of the Local Instance Walkthrough returned false
ProbeFailed == HasPrinted("Local instance is not accessible!")

\* C13: in the Local Instance Walkthrough a probe that returned false prints
\* the guidance and ends the run with no search issued and no instance pinned.
\* After a probe that returned true the instance is pinned before the first
\* search, and the searches issued are the first ones of general, image, news,
\* custom in that order: each is issued only when every earlier one succeeded,
\* a failed search is the last one issued, and all four are issued when none
\* failed.
C13_ProbeGatesSearches ==
    comp = "local"
    => /\ ProbeFailed
          => /\ pc = "done"
             /\ HasPrinted("Make sure SearXNG is running")
             /\ SearchesIssued = <<>>
             /\ "set_instance" \notin StepsRun
             /\ client_instance = NoInstance
       /\ SearchesIssued # <<>>
          => /\ ProbeSucceeded
             /\ SubSeq(steps, 1, 3) = <<"test_instance", "set_instance", "search">>
             /\ client_instance = [url |-> "http://localhost:8888", status |-> "online"]
       /\ Len(SearchesIssued) <= 4
       /\ SearchesIssued = SubSeq(LocalSearches, 1, Len(SearchesIssued))
       /\ TimesPrinted("Search failed") <= 1
       /\ HasPrinted("Search failed")
          => /\ pc \in {"l_stats", "done"}
             /\ log[Len(SearchesIssued) + 1].what = "Search failed"
       /\ ProbeSucceeded /\ pc \in {"l_stats", "done"} /\ ~HasPrinted("Search failed")
          => SearchesIssued = LocalSearches

\* C13 as the specification words it: when the probe succeeds, the four
\* searches are issued.
C13_FourSearchesIssued ==
    comp = "local" /\ ProbeSucceeded /\ pc = "done" => SearchesIssued = LocalSearches

\* C13 happens: the probe succeeded, the instance was pinned, the general
\* search succeeded, the image search failed and the run ended.
C13_SecondSearchFailed ==
    /\ comp = "local" /\ pc = "done"
    /\ ProbeSucceeded
    /\ HasPrinted("Search failed")
    /\ SearchesIssued = <<"search", "search_images">>
    /\ client_instance.url = "http://localhost:8888"

\* the discovery of the Basic Usage Walkthrough has run
Discovered == comp = "basic" /\ "get_best_instances" \in StepsRun

\* C14: after the discovery of the Basic Usage Walkthrough, with no best and no
\* online instance the run has ended on the termination message having issued
\* no search, probe or suggestions call; with no best but some online instances
\* the first five online instances are selected and the general search
\* follows; with best instances those are selected.
C14_NoInstancesNoSearch ==
    Discovered
    => IF best_instances = <<>> /\ working_instances = <<>>
       THEN /\ pc = "done"
            /\ log[Len(log)].what = "No instances available. Exiting."
            /\ steps = <<"update_instances", "get_instances", "get_best_instances">>
            /\ selected = <<>>
       ELSE /\ pc = "b_search" \/ "search" \in StepsRun
            /\ ~HasPrinted("No instances available. Exiting.")
            /\ IF best_instances = <<>>
               THEN /\ Len(selected) = IF Len(working_instances) < 5
                                       THEN Len(working_instances) ELSE 5
                    /\ \A i \in 1..Len(selected) : selected[i] = working_instances[i]
               ELSE selected = best_instances

\* C14 happens: the discovery found instances, none of them online, and no best
\* one, and the run has ended on the termination message.
C14_NothingAvailable ==
    /\ Discovered /\ pc = "done"
    /\ best_instances = <<>> /\ working_instances = <<>>
    /\ HasPrinted("No instances available. Exiting.")
    /\ closes = 0

\* C12: async with binds the adapter itself, and every step that leaves the
\* block, at its end, by a return or by an error, runs close() once.
C12_ExitAlwaysCloses ==
    /\ [](scope.state = "entered" => scope.bound = "self")
    /\ [][scope.state = "entered" /\ scope'.state = "exited"
          => /\ closes' = closes + 1
             /\ scope'.path \in {"normal", "return", "raise"}
             /\ scope'.bound = "self"]_vars

\* C12 happens: a search inside the block raised, the block was left by that
\* error, and the adapter is closed.
C12_LeftByError ==
    /\ comp = "adapter" /\ pc = "returned"
    /\ scope.state = "exited" /\ scope.path = "raise"
    /\ outcome.op = "async with" /\ outcome.error.kind = "ValueError"
    /\ closes = 1

\* C15: once close() has run on an adapter, no search and no probe of that
\* adapter is in flight.
C15_NoUseAfterRelease ==
    comp \in {"adapter", "client"} /\ closes > 0
    => pc \notin {"await_search", "await_health"} /\ inflight = <<>>

RECURSIVE AnsweredUpTo(_)
\* what the upstream returned to the first k delegated searches, in order
AnsweredUpTo(k) ==
    IF k = 0 THEN <<>> ELSE AnsweredUpTo(k - 1) \o responses[k].results
\* what the upstream returned to this call, in order
AllAnswered == AnsweredUpTo(Len(responses))
\* title, url and content of each result of a list, in order
Keys(list) == [i \in 1..Len(list) |-> <<list[i].title, list[i].url, list[i].content>>]
\* the results of a list whose url no earlier result of the list has, in order
FirstSeen(list) ==
    LET F[i \in 0..Len(list)] ==
            IF i = 0 THEN <<>>
            ELSE IF \E j \in 1..i - 1 : list[j].url = list[i].url
                 THEN F[i - 1]
                 ELSE Append(F[i - 1], list[i])
    IN F[Len(list)]
\* the first n entries of a list, all of it when it is shorter
FirstN(list, n) == SubSeq(list, 1, IF n < Len(list) THEN n ELSE Len(list))

\* C16: a search of either adapter has at most one delegated call in flight,
\* the one of the language it stands at; the calls were delegated in the order
\* of the language list; the accumulated results are what the upstream
\* returned, language by language in that order; and the list the second
\* adapter returns is the first-seen de-duplication by url of them.
C16_OneAtATimeInOrder ==
    comp \in {"adapter", "client"} /\ InSearch
    => /\ Len(inflight) = IF pc = "await_search" THEN 1 ELSE 0
       /\ Len(issued) = Len(responses) + Len(inflight)
       /\ Len(issued) <= Len(languages)
       /\ \A i \in 1..Len(issued) :
             issued[i].language = IF languages[i] = "auto" THEN "en" ELSE languages[i]
       /\ pc = "await_search"
          => /\ idx = Len(issued)
             /\ inflight[1].config = issued[idx]
       /\ Keys(results) = Keys(AllAnswered)
       /\ comp = "client" /\ SearchReturned
          => Keys(outcome.list) = Keys(FirstSeen(AllAnswered))

\* C16 happens: two languages succeeded, the second returned a url the first
\* had returned, and the second adapter returned the first one found.
C16_SecondLanguageRepeats ==
    /\ comp = "client" /\ SearchReturned
    /\ Len(responses) = 2
    /\ Len(responses[1].results) = 2 /\ Len(responses[2].results) = 1
    /\ responses[2].results[1].url = responses[1].results[2].url
    /\ responses[2].results[1].title # responses[1].results[2].title
    /\ Len(outcome.list) = 2
    /\ outcome.list[2].title = responses[1].results[2].title

\* C17: the list the first adapter's search returns is the first-seen
\* de-duplication by url of the first max_results accumulated results.
C17_TruncateThenDeduplicate ==
    comp = "adapter" /\ SearchReturned
    => Keys(outcome.list) = Keys(FirstSeen(FirstN(AllAnswered, max_results)))

\* C17 happens: three results were accumulated, the first two with one url and
\* the third with another; with max_results 2 the search returned one result.
C17_ShorterThanCap ==
    /\ comp = "adapter" /\ SearchReturned
    /\ max_results = 2
    /\ Len(results) = 3
    /\ results[1].url = results[2].url
    /\ results[3].url # results[1].url
    /\ Len(outcome.list) = 1

\* C18: in a search of the first adapter, a language after whose results the
\* collection has reached max_results is the last one searched, and the search
\* leaves a language unsearched only after such a language.
C18_StopAtCap ==
    comp = "adapter" /\ InSearch /\ outcome.kind # "raise"
    => /\ \A k \in 1..Len(responses) :
             responses[k].kind = "ok" /\ Len(AnsweredUpTo(k)) >= max_results
             => k = Len(responses) /\ Len(issued) = k /\ pc = "returned"
       /\ pc = "returned" /\ Len(issued) < Len(languages)
          => /\ Len(responses) >= 1
             /\ responses[Len(responses)].kind = "ok"
             /\ Len(AllAnswered) >= max_results

\* C18 happens: the first of several languages filled the collection exactly
\* to max_results and no other language was searched.
C18_StoppedAfterFirst ==
    /\ comp = "adapter" /\ SearchReturned
    /\ Len(languages) >= 2
    /\ Len(issued) = 1
    /\ max_results >= 1
    /\ Len(results) = max_results

====
